---- MODULE Spec2Model ----
(***************************************************************************)
(* Model of server.js (the express application of lines 68-433): the two   *)
(* media routes POST /process and POST /thumbnail, the temporary files     *)
(* they register, the ffmpeg invocations they await, and safeUnlink.       *)
(*                                                                         *)
(* JavaScript runs a handler to its next `await` without interleaving, so  *)
(* one action is one such run: the synchronous part of a handler, or the   *)
(* terminal event of an engine invocation together with the continuation   *)
(* the settled promise resumes.  The ffmpeg processes run outside the      *)
(* event loop; their writes to the output directory are actions of their   *)
(* own.                                                                    *)
(***************************************************************************)
EXTENDS Integers, Sequences, FiniteSets, TLC

\* ---------------------------------------------------------------- bounds
NumReq == 2        \* requests the model follows
MaxClock == 1      \* Date.now() takes the values 0..MaxClock
MaxFaults == 1     \* filesystem calls (readFileSync, unlinkSync) that throw

Req == 1..NumReq
Clock == 0..MaxClock

\* Date.now(): milliseconds that never run backwards; a call returns the
\* value of the call before it or a later one.
DateNow(prev) == {t \in Clock : t >= prev}

\* ----------------------------------------------------------------- paths
\* A path is <<directory, filename prefix, suffix>>.
Null == <<"", "", 0>>

\* multer({dest: uploadDir}) stores each upload under a name of its own.
UploadPath(r) == <<"uploads", "upload", r>>

\* `processed_${Date.now()}.mp4` joined to outputDir.
OutputPathAt(t) == <<"outputs", "processed", t>>

\* `thumbnail_${Date.now()}.jpg` joined to outputDir (both routes).
ThumbnailPathAt(t) == <<"outputs", "thumbnail", t>>

\* ------------------------------------------------------------- contents
\* A file is [bytes, by]: its bytes and the request whose upload or engine
\* invocation wrote it.  Uploads of different requests differ.
UploadBytes(r) == <<r>>

\* What the engine writes is a function of what it reads: the transcode
\* prefixes the tag 77, the frame extraction the tag 74.
Transcoded(bytes) == <<77>> \o bytes

Frame(bytes) == <<74>> \o bytes

\* Buffer.toString('base64'): three bytes give four sextets, the last group
\* is padded with '=' (written 64).
RECURSIVE Base64(_)
Base64(b) ==
  IF Len(b) = 0 THEN <<>>
  ELSE IF Len(b) = 1 THEN
    <<b[1] \div 4, (b[1] % 4) * 16, 64, 64>>
  ELSE IF Len(b) = 2 THEN
    <<b[1] \div 4, (b[1] % 4) * 16 + (b[2] \div 16), (b[2] % 16) * 4, 64>>
  ELSE
    <<b[1] \div 4, (b[1] % 4) * 16 + (b[2] \div 16),
      (b[2] % 16) * 4 + (b[3] \div 64), b[3] % 64>>
      \o Base64(SubSeq(b, 4, Len(b)))

\* The inverse of Base64, used to read a payload back.
RECURSIVE Base64Decode(_)
Base64Decode(s) ==
  IF Len(s) < 4 THEN <<>>
  ELSE
    LET b1 == s[1] * 4 + (s[2] \div 16)
        b2 == (s[2] % 16) * 16 + (s[3] \div 4)
        b3 == (s[3] % 4) * 64 + s[4]
    IN IF s[3] = 64 THEN <<b1>>
       ELSE IF s[4] = 64 THEN <<b1, b2>>
       ELSE <<b1, b2, b3>> \o Base64Decode(SubSeq(s, 5, Len(s)))

\* `data:<mime>;base64,<payload>`; null is the payload of no thumbnail.
NullPayload == [mime |-> "null", data |-> <<>>]

DataUri(mime, bytes) == [mime |-> mime, data |-> Base64(bytes)]

\* ----------------------------------------------------------- filesystem
\* disk is a function from the paths that exist to their files.
existsSync(d, p) == p \in DOMAIN d

WriteFile(d, p, f) == [q \in DOMAIN d \cup {p} |-> IF q = p THEN f ELSE d[q]]

unlinkSync(d, p) == [q \in DOMAIN d \ {p} |-> d[q]]

\* A safeUnlink that removes nothing.
safeUnlinkKeeps(d, p, fails) == d

\* safeUnlink: unlink the path if it exists; an unlinkSync that throws is
\* logged and swallowed, and the file stays.
safeUnlink(d, p, fails) ==
  IF existsSync(d, p)
  THEN IF p \in fails THEN d ELSE unlinkSync(d, p)
  ELSE d

\* An unlink without the try/catch: the error of unlinkSync leaves it.
UnguardedUnlinkThrows(d, p, fails) == existsSync(d, p) /\ p \in fails

\* Whether a call of safeUnlink throws: its whole body is inside try, and
\* the catch only logs.
safeUnlinkThrows(d, p, fails) == FALSE

Range(s) == {s[i] : i \in DOMAIN s}

\* A release step of unguarded unlinks: the first unlinkSync that throws
\* ends it, and the paths after it are not visited.
RECURSIVE ReleaseStopsAtFailure(_, _, _, _)
ReleaseStopsAtFailure(d, rec, names, fails) ==
  IF names = <<>> THEN d
  ELSE IF Head(names) \in fails /\ existsSync(d, rec[Head(names)]) THEN d
  ELSE ReleaseStopsAtFailure(safeUnlink(d, rec[Head(names)], {}),
                             rec, Tail(names), fails)

\* The release step: safeUnlink on each of the handler's path variables
\* named in `names`, in order; `rec` holds the variables.
RECURSIVE Release(_, _, _, _)
Release(d, rec, names, fails) ==
  IF names = <<>> THEN d
  ELSE Release(safeUnlink(d, rec[Head(names)], {rec[n] : n \in fails}),
               rec, Tail(names), fails)

\* The path variables among `names` whose file exists.
Existing(d, rec, names) == {n \in Range(names) : existsSync(d, rec[n])}

\* ---------------------------------------------------------------- state
VARIABLES
  req,          \* per request: the handler's locals, its position, its response
  disk,         \* the files of uploadDir and outputDir
  now,          \* the last value Date.now() returned
  globalScope,  \* the identifiers the global scope binds
  faults,       \* filesystem calls that have thrown so far
  last          \* the handler that returned in the last step, if one did

vars == <<req, disk, now, globalScope, faults, last>>

\* The messages of the errors the handlers catch (the Spanish ones written
\* without their accents).
ReferenceErrorMsg == "timestamp is not defined"
EngineErrorMsg == "ffmpeg exited with code 1"
TimeoutMsg == "process ran into a timeout (30s)"
NoOutputMsg == "El video no se proceso correctamente"
NoThumbnailMsg == "La miniatura no se genero correctamente"
EnoentMsg == "ENOENT: no such file or directory"
EioMsg == "EIO: i/o error"
\* The message of the MulterError with code LIMIT_FILE_SIZE.
FileTooLargeMsg == "File too large"

NoResponse ==
  [status |-> 0, keys |-> {}, success |-> FALSE, error |-> "", details |-> "",
   message |-> "",
   processedVideo |-> NullPayload, thumbnail |-> NullPayload, size |-> 0]

\* A request before it arrives: the handler's `let ... = null` locals and
\* the history of what it did: the invocations it started, the terminal
\* events it got, the buffer read from outputPath, the path variables
\* whose file existed when the release step began, when the
\* response was sent and when the handler returned, the safeUnlink calls,
\* the calls whose unlinkSync threw, and the requests it took a file from.
\* multerError is the code of the error upload.single passed to next(), if
\* it did.
NewRequest ==
  [pc |-> "idle", route |-> "none", file |-> Null, multerError |-> "",
   inputPath |-> Null, outputPath |-> Null, thumbnailPath |-> Null,
   res |-> NoResponse, sent |-> 0,
   engine |-> <<>>, events |-> <<>>, outputSeen |-> FALSE,
   processedVideoBuffer |-> <<>>,
   released |-> 0, atCleanup |-> {}, atSend |-> {}, atReturn |-> {},
   unlinked |-> <<>>, unlinkFailed |-> {}, removed |-> {}]

\* No handler returned in the last step.
NoReturn == [id |-> 0, rec |-> NewRequest]

Init ==
  /\ req = [r \in Req |-> NewRequest]
  /\ disk = [p \in {} |-> [bytes |-> <<>>, by |-> 0]]
  /\ now = 0
  /\ globalScope \in SUBSET {"timestamp"}
  /\ faults = 0
  /\ last = NoReturn

\* upload.single('video'): the multipart middleware stores the file part, if
\* the request has one, under a name of its own and sets req.file; the
\* result is the disk and req.file.path (Null without a file part).  The
\* upload touches no path of another request.
UploadSingle(r, hasFile) ==
  [disk |-> IF hasFile
            THEN WriteFile(disk, UploadPath(r), [bytes |-> UploadBytes(r), by |-> r])
            ELSE disk,
   file |-> IF hasFile THEN UploadPath(r) ELSE Null]

\* Requests arrive in the order of their numbers.
Arrives(r) ==
  /\ req[r].pc = "idle"
  /\ IF r = 1 THEN TRUE ELSE req[r - 1].pc # "idle"

\* ------------------------------------------------------ handler pieces
\* The sets of existing paths whose unlinkSync may still throw.
FailSets(d, rec, names) ==
  {F \in SUBSET Existing(d, rec, names) : faults + Cardinality(F) <= MaxFaults}

\* Whether one more filesystem call may throw.
MayFault(cost) == faults + cost <= MaxFaults

\* The requests other than `self`, still being served, that wrote a file
\* present in d0 and gone in d1.
Victims(d0, d1, self) ==
  {v \in Req \ {self} :
     /\ req[v].pc # "done"
     /\ \E p \in DOMAIN d0 \ DOMAIN d1 : d0[p].by = v}

\* A cleanup of POST /process that forgets the thumbnail.
ProcessCleanupWithoutThumbnail == <<"inputPath", "outputPath">>

\* The safeUnlink calls of POST /process (both the success and the catch
\* block make the same three).
ProcessCleanupPaths == <<"inputPath", "outputPath", "thumbnailPath">>

\* The safeUnlink calls of POST /thumbnail.
ThumbnailCleanupPaths == <<"inputPath", "thumbnailPath">>

CleanupPaths(rec) ==
  IF rec.route = "process" THEN ProcessCleanupPaths ELSE ThumbnailCleanupPaths

\* The path variables a handler declares: `let inputPath = null` and the
\* others at the top of each route.
PathVars(rec) ==
  IF rec.route = "process" THEN <<"inputPath", "outputPath", "thumbnailPath">>
  ELSE <<"inputPath", "thumbnailPath">>

\* The `error` field of the route's 500 response.
ErrorTitle(rec) ==
  IF rec.route = "process" THEN "Error interno del servidor"
  ELSE "Error interno del servidor generando miniatura"

\* res.status(500).json({error, details: error.message, timestamp}).
Body500(rec, msg) ==
  [NoResponse EXCEPT !.status = 500,
                     !.keys = {"error", "details", "timestamp"},
                     !.error = ErrorTitle(rec), !.details = msg]

\* res.status(400).json({error, ...}): /process adds `received`.
Body400(rec) ==
  [NoResponse EXCEPT !.status = 400,
                     !.keys = IF rec.route = "process"
                              THEN {"error", "received"} ELSE {"error"},
                     !.error = "No se recibio ningun archivo de video"]

\* The success body of POST /process.
ProcessBody200(processedVideoBuffer, thumb) ==
  [NoResponse EXCEPT !.status = 200,
                     !.keys = {"success", "message", "originalName",
                               "originalSize", "processedSize",
                               "processedVideo", "thumbnail", "timestamp"},
                     !.success = TRUE,
                     !.processedVideo = DataUri("video/mp4", processedVideoBuffer),
                     !.thumbnail = thumb,
                     !.size = Len(processedVideoBuffer)]

\* The success body of POST /thumbnail.
ThumbnailBody200(thumbBytes) ==
  [NoResponse EXCEPT !.status = 200,
                     !.keys = {"success", "message", "thumbnail", "size",
                               "timestamp"},
                     !.success = TRUE,
                     !.thumbnail = DataUri("image/jpeg", thumbBytes),
                     !.size = Len(thumbBytes)]

\* The handler returns: its locals are gone and the server keeps nothing of
\* the request.  `last` shows the returning handler's record to the step's
\* observer; what is kept of a served request is how many responses it was
\* sent and how often its release step ran.
Return(r, end) ==
  /\ last' = [id |-> r,
              rec |-> [end EXCEPT !.inputPath = Null, !.outputPath = Null,
                                  !.thumbnailPath = Null]]
  /\ req' = [req EXCEPT ![r] = [NewRequest EXCEPT !.pc = "done",
                                                  !.sent = end.sent,
                                                  !.released = end.released]]

\* A handler whose release step is not guarded: after the 200, an
\* unlinkSync that throws reaches the catch block, which answers again.
TerminateAnswersTwice(r, d, rec, body, fails, sendFirst, cost) ==
  LET names == CleanupPaths(rec)
      d1 == Release(d, rec, names, fails)
      end == [rec EXCEPT !.pc = "done", !.res = body,
                         !.sent = @ + (IF sendFirst /\ fails # {} THEN 2 ELSE 1),
                         !.released = @ + 1,
                         !.atCleanup = Existing(d, rec, PathVars(rec)),
                         !.atSend = Existing(IF sendFirst THEN d ELSE d1,
                                             rec, PathVars(rec)),
                         !.atReturn = Existing(d1, rec, PathVars(rec)),
                         !.unlinked = @ \o names,
                         !.unlinkFailed = fails,
                         !.removed = Victims(d, d1, r)]
  IN /\ Return(r, end)
     /\ disk' = d1
     /\ faults' = faults + cost + Cardinality(fails)

\* The handler's last run: a response and the release step, in the order
\* `sendFirst` says; `cost` filesystem reads threw on the way.  The path
\* variables are the handler's locals.
Terminate(r, d, rec, body, fails, sendFirst, cost) ==
  LET names == CleanupPaths(rec)
      d1 == Release(d, rec, names, fails)
      end == [rec EXCEPT !.pc = "done", !.res = body, !.sent = @ + 1,
                         !.released = @ + 1,
                         !.atCleanup = Existing(d, rec, PathVars(rec)),
                         !.atSend = Existing(IF sendFirst THEN d ELSE d1,
                                             rec, PathVars(rec)),
                         !.atReturn = Existing(d1, rec, PathVars(rec)),
                         !.unlinked = @ \o names,
                         !.unlinkFailed = fails,
                         !.removed = Victims(d, d1, r)]
  IN /\ Return(r, end)
     /\ disk' = d1
     /\ faults' = faults + cost + Cardinality(fails)

\* A catch block that answers before it releases.
CatchSendFirst(r, d, rec, msg, cost) ==
  \E fails \in FailSets(d, rec, CleanupPaths(rec)) :
    /\ MayFault(cost + Cardinality(fails))
    /\ Terminate(r, d, rec, Body500(rec, msg), fails, TRUE, cost)

\* A catch block that releases and sends nothing.
CatchWithoutResponse(r, d, rec, msg, cost) ==
  \E fails \in FailSets(d, rec, CleanupPaths(rec)) :
    /\ MayFault(cost + Cardinality(fails))
    /\ Terminate(r, d, [rec EXCEPT !.sent = @ - 1], NoResponse, fails, FALSE,
                 cost)

\* The catch block of either route: release, then the 500 response.
Catch(r, d, rec, msg, cost) ==
  \E fails \in FailSets(d, rec, CleanupPaths(rec)) :
    /\ MayFault(cost + Cardinality(fails))
    /\ Terminate(r, d, rec, Body500(rec, msg), fails, FALSE, cost)

\* A try block that ends with the response and releases nothing.
SucceedWithoutRelease(r, d, rec, body, cost) ==
  /\ Return(r, [rec EXCEPT !.pc = "done", !.res = body, !.sent = @ + 1,
                           !.atSend = Existing(d, rec, PathVars(rec)),
                           !.atReturn = Existing(d, rec, PathVars(rec))])
  /\ disk' = d
  /\ faults' = faults + cost

\* The end of the try block of either route: the 200 response, then release.
Succeed(r, d, rec, body, cost) ==
  \E fails \in FailSets(d, rec, CleanupPaths(rec)) :
    /\ MayFault(cost + Cardinality(fails))
    /\ Terminate(r, d, rec, body, fails, TRUE, cost)

\* A handler without the missing-file check: `req.file.path` throws a
\* TypeError, which the catch block answers.
RejectUnchecked(r, rec) ==
  Catch(r, disk, rec, "Cannot read properties of undefined", 0)

\* `if (!req.file) return res.status(400).json(...)`: nothing else runs.
Reject(r, rec) ==
  /\ Return(r, [rec EXCEPT !.pc = "done", !.res = Body400(rec), !.sent = @ + 1])
  /\ UNCHANGED <<disk, faults>>

\* The body of the error-handling middleware registered last:
\* res.status(500).json({error, message: error.message}).
GlobalErrorBody(msg) ==
  [NoResponse EXCEPT !.status = 500, !.keys = {"error", "message"},
                     !.error = "Error interno del servidor", !.message = msg]

\* A ffmpeg(src)...output(out).run() the handler awaits; src and out name
\* the path variables it was given.
Invocation(stage, src, out) == [stage |-> stage, src |-> src, out |-> out]

\* The invocation the handler is waiting for.
Awaited(rec) == rec.engine[Len(rec.engine)]

\* ------------------------------------------------------------ the engine
\* The ffmpeg process of the awaited invocation reads its source and writes
\* (or rewrites) its output file.
EngineWrites(r) ==
  /\ req[r].pc \in {"transcoding", "thumbnailing"}
  /\ LET inv == Awaited(req[r])
         src == req[r][inv.src]
         out == req[r][inv.out]
         new == [bytes |-> IF inv.stage = "transcode"
                           THEN Transcoded(disk[src].bytes)
                           ELSE Frame(disk[src].bytes),
                 by |-> r]
     IN /\ existsSync(disk, src)
        /\ IF existsSync(disk, out) THEN disk[out] # new ELSE TRUE
        /\ disk' = WriteFile(disk, out, new)
  /\ last' = NoReturn
  /\ UNCHANGED <<req, now, globalScope, faults>>

\* ---------------------------------------------------------------- ingress
\* A file part larger than limits.fileSize (50 MiB): upload.single removes
\* the part it was storing and calls next(err) with a MulterError, express
\* skips the route's handler and runs the error-handling middleware, which
\* answers 500.  No local of the route's handler exists.
UploadTooLarge(r) ==
  /\ Arrives(r)
  /\ \E route \in {"process", "thumbnail"} :
       Return(r, [req[r] EXCEPT !.pc = "done", !.route = route,
                                !.multerError = "LIMIT_FILE_SIZE",
                                !.res = GlobalErrorBody(FileTooLargeMsg),
                                !.sent = @ + 1])
  /\ UNCHANGED <<disk, now, globalScope, faults>>

\* --------------------------------------------------------- POST /process
\* The handler up to its first await: the missing-file check, the three
\* paths, and the promise executor, which reads the identifier `timestamp`
\* before it calls run(); an unbound identifier throws a ReferenceError, the
\* promise rejects and the catch block runs.
ProcessHandler(r) ==
  /\ Arrives(r)
  /\ UNCHANGED globalScope
  /\ \E hasFile \in BOOLEAN :
       LET up == UploadSingle(r, hasFile)
           rec0 == [req[r] EXCEPT !.route = "process", !.file = up.file]
       IN \/ /\ rec0.file = Null
             /\ Reject(r, rec0)
             /\ UNCHANGED now
          \/ /\ rec0.file # Null
             /\ \E t1 \in DateNow(now) : \E t2 \in DateNow(t1) :
                  LET rec == [rec0 EXCEPT !.inputPath = rec0.file,
                                          !.outputPath = OutputPathAt(t1),
                                          !.thumbnailPath = ThumbnailPathAt(t2)]
                  IN /\ now' = t2
                     /\ \/ /\ "timestamp" \notin globalScope
                           /\ Catch(r, up.disk, rec, ReferenceErrorMsg, 0)
                        \/ /\ "timestamp" \in globalScope
                           /\ req' = [req EXCEPT ![r] =
                                [rec EXCEPT !.pc = "transcoding",
                                            !.engine = Append(@,
                                              Invocation("transcode", "inputPath",
                                                         "outputPath"))]]
                           /\ disk' = up.disk
                           /\ last' = NoReturn
                           /\ UNCHANGED faults

\* A thumbnail invocation that reads the raw upload.
ThumbnailFromInput == "inputPath"

\* The thumbnail invocation of POST /process reads the transcoded output.
ProcessThumbnailSource == "outputPath"

\* A handler that goes on to the thumbnail invocation without checking
\* that the output exists.
ProcessTranscodeEndUnchecked(r) ==
  /\ req[r].pc = "transcoding"
  /\ req[r].route = "process"
  /\ req' = [req EXCEPT ![r] =
       [req[r] EXCEPT !.pc = "thumbnailing",
                      !.events = Append(@, "transcode:end"),
                      !.engine = Append(@,
                        Invocation("thumbnail", ProcessThumbnailSource,
                                   "thumbnailPath"))]]
  /\ last' = NoReturn
  /\ UNCHANGED <<disk, now, globalScope, faults>>

\* 'end' of the transcode: the promise resolves; the handler checks that
\* the output exists and starts the thumbnail invocation.
ProcessTranscodeEnd(r) ==
  /\ req[r].pc = "transcoding"
  /\ req[r].route = "process"
  /\ UNCHANGED <<now, globalScope>>
  /\ LET rec == [req[r] EXCEPT !.events = Append(@, "transcode:end")]
     IN \/ /\ ~existsSync(disk, rec.outputPath)
           /\ Catch(r, disk, rec, NoOutputMsg, 0)
        \/ /\ existsSync(disk, rec.outputPath)
           /\ req' = [req EXCEPT ![r] =
                [rec EXCEPT !.pc = "thumbnailing", !.outputSeen = TRUE,
                            !.engine = Append(@,
                              Invocation("thumbnail", ProcessThumbnailSource,
                                         "thumbnailPath"))]]
           /\ last' = NoReturn
           /\ UNCHANGED <<disk, faults>>

\* 'error' of the transcode: the promise rejects and the catch block runs.
ProcessTranscodeError(r) ==
  /\ req[r].pc = "transcoding"
  /\ req[r].route = "process"
  /\ UNCHANGED <<now, globalScope>>
  /\ Catch(r, disk, [req[r] EXCEPT !.events = Append(@, "transcode:error")],
           EngineErrorMsg, 0)

\* readFileSync(outputPath) and the response: a read that throws reaches
\* the catch block, a read that returns gives the 200 response.
ProcessRespond(r, rec, thumb, cost) ==
  \/ /\ ~existsSync(disk, rec.outputPath)
     /\ Catch(r, disk, rec, EnoentMsg, cost)
  \/ /\ existsSync(disk, rec.outputPath)
     /\ MayFault(cost + 1)
     /\ Catch(r, disk, rec, EioMsg, cost + 1)
  \/ /\ existsSync(disk, rec.outputPath)
     /\ LET buf == disk[rec.outputPath].bytes
        IN Succeed(r, disk, [rec EXCEPT !.processedVideoBuffer = buf],
                   ProcessBody200(buf, thumb), cost)

\* 'end' of the thumbnail invocation: the thumbnail is read if it exists (a
\* read that throws is caught by the inner catch), then the response.
ProcessThumbnailEnd(r) ==
  /\ req[r].pc = "thumbnailing"
  /\ req[r].route = "process"
  /\ UNCHANGED <<now, globalScope>>
  /\ LET rec == [req[r] EXCEPT !.events = Append(@, "thumbnail:end")]
     IN \/ /\ ~existsSync(disk, rec.thumbnailPath)
           /\ ProcessRespond(r, rec, NullPayload, 0)
        \/ /\ existsSync(disk, rec.thumbnailPath)
           /\ MayFault(1)
           /\ ProcessRespond(r, rec, NullPayload, 1)
        \/ /\ existsSync(disk, rec.thumbnailPath)
           /\ ProcessRespond(r, rec,
                DataUri("image/jpeg", disk[rec.thumbnailPath].bytes), 0)

\* A POST /process whose thumbnail error reaches the route's catch block.
ProcessThumbnailErrorRethrown(r, rec, msg) == Catch(r, disk, rec, msg, 0)

\* What POST /process does with an 'error' of the thumbnail invocation: the
\* inner catch logs the error and the handler goes on with thumbnailBase64
\* null.
ProcessOnThumbnailError(r, rec, msg) == ProcessRespond(r, rec, NullPayload, 0)

\* 'error' of the thumbnail invocation: the engine failed, or timeout(30)
\* killed it, which the engine reports as an 'error' with a message of its
\* own.
ProcessThumbnailError(r) ==
  /\ req[r].pc = "thumbnailing"
  /\ req[r].route = "process"
  /\ UNCHANGED <<now, globalScope>>
  /\ \E msg \in {EngineErrorMsg, TimeoutMsg} :
       ProcessOnThumbnailError(r,
         [req[r] EXCEPT !.events = Append(@, "thumbnail:error")], msg)

\* ------------------------------------------------------- POST /thumbnail
\* The handler up to its await: the missing-file check, the two paths and
\* the extraction started on the uploaded input.
ThumbnailHandler(r) ==
  /\ Arrives(r)
  /\ UNCHANGED globalScope
  /\ \E hasFile \in BOOLEAN :
       LET up == UploadSingle(r, hasFile)
           rec0 == [req[r] EXCEPT !.route = "thumbnail", !.file = up.file]
       IN \/ /\ rec0.file = Null
             /\ Reject(r, rec0)
             /\ UNCHANGED now
          \/ /\ rec0.file # Null
             /\ \E t \in DateNow(now) :
                  /\ now' = t
                  /\ req' = [req EXCEPT ![r] =
                       [rec0 EXCEPT !.pc = "thumbnailing",
                                    !.inputPath = rec0.file,
                                    !.thumbnailPath = ThumbnailPathAt(t),
                                    !.engine = Append(@,
                                      Invocation("thumbnail", "inputPath",
                                                 "thumbnailPath"))]]
                  /\ disk' = up.disk
                  /\ last' = NoReturn
                  /\ UNCHANGED faults

\* 'end' of the extraction: the existence check, the read, the response.
ThumbnailEnd(r) ==
  /\ req[r].pc = "thumbnailing"
  /\ req[r].route = "thumbnail"
  /\ UNCHANGED <<now, globalScope>>
  /\ LET rec == [req[r] EXCEPT !.events = Append(@, "thumbnail:end")]
     IN \/ /\ ~existsSync(disk, rec.thumbnailPath)
           /\ Catch(r, disk, rec, NoThumbnailMsg, 0)
        \/ /\ existsSync(disk, rec.thumbnailPath)
           /\ MayFault(1)
           /\ Catch(r, disk, rec, EioMsg, 1)
        \/ /\ existsSync(disk, rec.thumbnailPath)
           /\ Succeed(r, disk, rec, ThumbnailBody200(disk[rec.thumbnailPath].bytes), 0)

\* A POST /thumbnail that answers an extraction error with a null thumbnail.
ThumbnailErrorSwallowed(r, rec, msg) ==
  Succeed(r, disk, rec,
          [ThumbnailBody200(<<>>) EXCEPT !.thumbnail = NullPayload], 0)

\* What POST /thumbnail does with an 'error' of the extraction: the promise
\* rejects and nothing catches it before the route's catch block.
ThumbnailOnError(r, rec, msg) == Catch(r, disk, rec, msg, 0)

\* 'error' of the extraction (the engine failed, or timeout(30) killed it).
ThumbnailError(r) ==
  /\ req[r].pc = "thumbnailing"
  /\ req[r].route = "thumbnail"
  /\ UNCHANGED <<now, globalScope>>
  /\ \E msg \in {EngineErrorMsg, TimeoutMsg} :
       ThumbnailOnError(r,
         [req[r] EXCEPT !.events = Append(@, "thumbnail:error")], msg)

\* ------------------------------------------------------------------ spec
Next ==
  \E r \in Req :
       \/ EngineWrites(r)
       \/ ProcessHandler(r)
       \/ ProcessTranscodeEnd(r)
       \/ ProcessTranscodeError(r)
       \/ ProcessThumbnailEnd(r)
       \/ ProcessThumbnailError(r)
       \/ ThumbnailHandler(r)
       \/ ThumbnailEnd(r)
       \/ ThumbnailError(r)
       \/ UploadTooLarge(r)

Spec == Init /\ [][Next]_vars

\* The terminal event of the invocation the request r awaits.  The engine
\* emits 'end' or 'error' for every invocation it runs to its end, and
\* timeout(30) turns a thumbnail invocation that does not end into an
\* 'error'; the transcode has no timeout, and its terminal event is
\* the engine's alone.
TerminalEvent(r) ==
  \/ ProcessTranscodeEnd(r)
  \/ ProcessTranscodeError(r)
  \/ ProcessThumbnailEnd(r)
  \/ ProcessThumbnailError(r)
  \/ ThumbnailEnd(r)
  \/ ThumbnailError(r)

\* Spec under the assumption that every invocation started gets its
\* terminal event.
FairSpec == Spec /\ \A r \in Req : WF_vars(TerminalEvent(r))

\* ------------------------------------------------- safeUnlink on its own
\* safeUnlink as a function of the filesystem and its argument: any of the
\* paths the server names, or null (a path variable never assigned), on any
\* filesystem holding some of those paths; called once, or twice in a row.
AllPaths ==
  {UploadPath(r) : r \in Req} \cup {OutputPathAt(t) : t \in Clock}
     \cup {ThumbnailPathAt(t) : t \in Clock}

EmptyDisk == [p \in {} |-> [bytes |-> <<>>, by |-> 0]]

Disks == {[p \in S |-> [bytes |-> <<>>, by |-> 0]] : S \in SUBSET AllPaths}

\* No call of safeUnlink was made in the last step.
NoCall ==
  [path |-> Null, times |-> 0, before |-> EmptyDisk, once |-> EmptyDisk,
   threw |-> 0, raised |-> FALSE]

InitUnlink ==
  /\ req = [r \in Req |-> NewRequest]
  /\ disk \in Disks
  /\ now = 0
  /\ globalScope = {}
  /\ faults = 0
  /\ last = [id |-> 0, rec |-> NewRequest, call |-> NoCall]

\* `times` calls safeUnlink(p) in a row; f1 and f2 say whether the
\* unlinkSync of the first and of the second call throws.  `last.call`
\* keeps the filesystem before the calls and after the first.
SafeUnlinkCalls(p, times) ==
  \E f1 \in SUBSET {p} : \E f2 \in SUBSET {p} :
    LET d1 == safeUnlink(disk, p, f1)
        d2 == IF times = 2 THEN safeUnlink(d1, p, f2) ELSE d1
        t1 == IF existsSync(disk, p) /\ p \in f1 THEN 1 ELSE 0
        t2 == IF times = 2 /\ existsSync(d1, p) /\ p \in f2 THEN 1 ELSE 0
    IN /\ MayFault(t1 + t2)
       /\ times = 1 => f2 = {}
       /\ disk' = d2
       /\ faults' = faults + t1 + t2
       /\ last' = [id |-> 0, rec |-> NewRequest,
                   call |-> [path |-> p, times |-> times, before |-> disk,
                             once |-> d1, threw |-> t1 + t2,
                             raised |-> \/ safeUnlinkThrows(disk, p, f1)
                                        \/ /\ times = 2
                                           /\ safeUnlinkThrows(d1, p, f2)]]
       /\ UNCHANGED <<req, now, globalScope>>

NextUnlink ==
  \E p \in AllPaths \cup {Null} : \E times \in {1, 2} :
       SafeUnlinkCalls(p, times)

SpecUnlink == InitUnlink /\ [][NextUnlink]_vars

\* ---------------------------------------------------------------- claims
\* The record of the handler that returned in the last step.
L == last.rec

Returned == last.id # 0

LastEvent(rec) == IF rec.events = <<>> THEN "none" ELSE rec.events[Len(rec.events)]

EngineMsgs == {EngineErrorMsg, TimeoutMsg}

ReadMsgs == {EnoentMsg, EioMsg}

\* A request between its handler's first run and its return.
Live(r) == req[r].pc \in {"transcoding", "thumbnailing"}

EngineFailed(rec) ==
  \/ rec.route = "process" /\ LastEvent(rec) = "transcode:error"
  \/ rec.route = "thumbnail" /\ LastEvent(rec) = "thumbnail:error"

\* C2, as stated: a request whose engine invocation emits 'error' is
\* answered 500 and none of its input, output and thumbnail files is on disk
\* when its handler returns.
C2_EngineFailureLeavesNothing ==
  (Returned /\ EngineFailed(L)) => (L.res.status = 500 /\ L.atReturn = {})

\* C2, amended: a request whose engine invocation emits 'error' is answered
\* 500 with the engine's message, safeUnlink is called on each of its paths,
\* and the paths left on disk when the handler returns are exactly those
\* whose unlinkSync threw.
C2_EngineFailureAnswers500AndReleases ==
  (Returned /\ EngineFailed(L)) =>
     /\ L.res.status = 500
     /\ L.res.details \in EngineMsgs
     /\ L.unlinked = CleanupPaths(L)
     /\ L.atReturn = L.unlinkFailed

\* A POST /thumbnail whose extraction failed after the engine had written a
\* thumbnail file: both files were there before the release, none after.
C2_Witness ==
  /\ Returned /\ EngineFailed(L) /\ L.route = "thumbnail"
  /\ L.atCleanup = {"inputPath", "thumbnailPath"}
  /\ L.atReturn = {}

\* The thumbnail invocation of a POST /process emitted 'error' (a failure or
\* the timeout) after the transcode had succeeded.
ThumbnailFailedAfterTranscode(rec) ==
  rec.route = "process" /\ rec.events = <<"transcode:end", "thumbnail:error">>

\* The 200 response of POST /process carries the buffer read from outputPath
\* as a video/mp4 data URI in base64.
CarriesOutput(rec) ==
  /\ rec.res.processedVideo.mime = "video/mp4"
  /\ Base64Decode(rec.res.processedVideo.data) = rec.processedVideoBuffer
  /\ rec.res.size = Len(rec.processedVideoBuffer)
  /\ Len(rec.processedVideoBuffer) > 0

C4_Only500OnEngineOrFilesystemFailure ==
  (Returned /\ L.route = "process" /\ L.file # Null) =>
     /\ L.res.status \in {200, 500}
     /\ L.outputSeen => Len(L.engine) = 2
     /\ L.res.status = 500 =>
          L.res.details \in {EngineErrorMsg, NoOutputMsg} \cup ReadMsgs

\* C5, as stated: two requests in flight at the same time never hold the
\* same outputPath or the same thumbnailPath.
C5_LiveRequestsHoldDistinctPaths ==
  \A a, b \in Req :
    (a # b /\ Live(a) /\ Live(b)) =>
       /\ req[a].thumbnailPath # req[b].thumbnailPath
       /\ req[a].outputPath = Null \/ req[a].outputPath # req[b].outputPath

\* C6, as stated: the release step of a request never removes a file that
\* another request, still being served, wrote, and a request whose transcode
\* succeeded finds its output present when it reads it.
C6_CleanupNeverTakesAnothersFile ==
  Returned =>
     /\ L.removed = {}
     /\ ~(L.outputSeen /\ L.res.details = EnoentMsg)

\* C7: a request with no file part (the upload middleware raised no error
\* and set no req.file) is answered 400, starts no engine invocation, runs
\* no safeUnlink, and no file written for it is on disk.
C7_NoFileAnswers400AndCreatesNothing ==
  (Returned /\ L.file = Null /\ L.multerError = "") =>
     /\ L.res.status = 400
     /\ L.sent = 1
     /\ L.engine = <<>>
     /\ L.unlinked = <<>>
     /\ \A p \in DOMAIN disk : disk[p].by # last.id

\* A request without a file part answered 400 while another request's files
\* are on disk.
C7_Witness ==
  /\ Returned /\ L.file = Null /\ L.res.status = 400
  /\ DOMAIN disk # {}

\* C8, as stated: on neither route is a request answered 500 with the error
\* of a failed or timed-out thumbnail extraction.
C8_ThumbnailErrorNeverAnswered500 ==
  (Returned /\ LastEvent(L) = "thumbnail:error") =>
     ~(L.res.status = 500 /\ L.res.details \in EngineMsgs)

\* C8, amended: on POST /process a failed or timed-out thumbnail extraction
\* is never the error answered (the response is 200 with thumbnail null, or
\* 500 with the message of the failed read of the output); on POST /thumbnail
\* it is: the response is 500 with the engine's message.
C8_ThumbnailErrorSwallowedOnProcessOnly ==
  (Returned /\ LastEvent(L) = "thumbnail:error") =>
     IF L.route = "process"
     THEN \/ L.res.status = 200 /\ L.res.thumbnail = NullPayload
          \/ L.res.status = 500 /\ L.res.details \in ReadMsgs
     ELSE L.res.status = 500 /\ L.res.details \in EngineMsgs

\* A POST /thumbnail whose extraction timed out, answered 500 with the
\* timeout's message.
C8_Witness ==
  /\ Returned /\ L.route = "thumbnail" /\ LastEvent(L) = "thumbnail:error"
  /\ L.res.status = 500 /\ L.res.details = TimeoutMsg

TryBlockMsgs ==
  {ReferenceErrorMsg, EngineErrorMsg, TimeoutMsg, NoOutputMsg, NoThumbnailMsg,
   EnoentMsg, EioMsg}

\* C11: when the unlinkSync of one of a request's paths throws, safeUnlink
\* is still called on every path of the request and every other path that
\* existed is removed; the request still gets its one response: the 200
\* already sent, or the 500 with the message of the error the try block
\* threw.
C11_UnlinkFailureSparesOthersAndResponse ==
  (Returned /\ L.unlinkFailed # {}) =>
     /\ L.unlinked = CleanupPaths(L)
     /\ L.atReturn = L.unlinkFailed
     /\ L.atCleanup \ L.unlinkFailed # {} => L.atReturn # L.atCleanup
     /\ L.sent = 1
     /\ \/ L.res.status = 200 /\ L.res.success
        \/ L.res.status = 500 /\ L.res.details \in TryBlockMsgs

\* A POST /thumbnail answered 200 whose unlink of the upload threw: the
\* thumbnail, visited after it, is removed all the same.
C11_Witness ==
  /\ Returned /\ L.route = "thumbnail" /\ L.res.status = 200
  /\ L.unlinkFailed = {"inputPath"}
  /\ L.atCleanup = {"inputPath", "thumbnailPath"}
  /\ L.atReturn = {"inputPath"}

\* The outcomes of one call safeUnlink(p) on the filesystem d: the file
\* removed, or left when unlinkSync throws.
SingleCallOutcomes(d, p) == {d, safeUnlink(d, p, {})}

\* C12: a call of safeUnlink, or two in a row, on any path (existing, never
\* created, or null) raises no error and touches no other file; two calls
\* leave the filesystem in a state one call can leave it in, the same state
\* as the first call left when no unlinkSync threw; on a path that does not
\* exist or is null the filesystem is unchanged.
C12_SafeUnlinkIdempotent ==
  LET c == last.call
  IN c.times > 0 =>
       /\ ~c.raised
       /\ disk \in SingleCallOutcomes(c.before, c.path)
       /\ c.threw = 0 =>
            (disk = c.once /\ disk = safeUnlink(c.before, c.path, {})
               /\ ~existsSync(disk, c.path))
       /\ ~existsSync(c.before, c.path) => (disk = c.before /\ c.threw = 0)
       /\ \A q \in DOMAIN c.before \ {c.path} :
            existsSync(disk, q) /\ disk[q] = c.before[q]

\* Two calls on an existing path, neither unlinkSync throwing: the first
\* removed the file and the second changed nothing.
C12_Witness ==
  LET c == last.call
  IN /\ c.times = 2 /\ c.threw = 0
     /\ existsSync(c.before, c.path)
     /\ ~existsSync(c.once, c.path)
     /\ disk = c.once

\* The transcode of a POST /process emitted 'end' and the existence check of
\* the output failed.
OutputMissingAfterEnd(rec) ==
  /\ rec.route = "process"
  /\ rec.events # <<>> /\ rec.events[1] = "transcode:end"
  /\ ~rec.outputSeen

C14_ErrorResponsesCarryThreeFields ==
  (Returned /\ L.res.status \in {400, 500}) =>
     {"error", "details", "timestamp"} \subseteq L.res.keys

\* C15, as stated: an upload over the size limit never reaches the route's
\* handler, starts no engine invocation, leaves no file, and is answered
\* 413 or 400.
C15_OversizedUploadAnswered413Or400 ==
  (Returned /\ L.multerError = "LIMIT_FILE_SIZE") =>
     /\ L.file = Null /\ L.engine = <<>>
     /\ \A p \in DOMAIN disk : disk[p].by # last.id
     /\ L.res.status \in {413, 400}

\* The invocations and terminal events of a POST /process so far are a
\* prefix of: the transcode from inputPath to outputPath, its 'end', the
\* existence check, the thumbnail invocation from outputPath to
\* thumbnailPath, its terminal event; at most one invocation has no
\* terminal event yet.
StagesInOrder(rec) ==
  rec.route = "process" =>
     /\ Len(rec.engine) <= 2
     /\ Len(rec.events) <= Len(rec.engine)
     /\ Len(rec.engine) <= Len(rec.events) + 1
     /\ Len(rec.engine) >= 1 =>
          rec.engine[1] = Invocation("transcode", "inputPath", "outputPath")
     /\ Len(rec.engine) = 2 =>
          /\ rec.engine[2] = Invocation("thumbnail", "outputPath", "thumbnailPath")
          /\ rec.events[1] = "transcode:end"
          /\ rec.outputSeen
     /\ rec.pc = "transcoding" => (Len(rec.engine) = 1 /\ rec.events = <<>>)
     /\ rec.pc = "thumbnailing" => (Len(rec.engine) = 2 /\ Len(rec.events) = 1)
     /\ rec.res.status = 200 => (Len(rec.engine) = 2 /\ Len(rec.events) = 2)
     /\ rec.sent > 0 => Len(rec.events) = Len(rec.engine)

FilesOf(r) == {p \in DOMAIN disk : disk[p].by = r}

\* The handler of r has returned, having sent one response.
Answered(r) == req[r].pc = "done" /\ req[r].sent = 1

C18_ExactlyOneResponse ==
  /\ \A r \in Req :
        /\ req[r].sent <= 1
        /\ req[r].pc = "done" <=> req[r].sent = 1
        /\ Live(r) => req[r].sent = 0
  /\ Returned =>
        /\ L.sent = 1
        /\ L.res.status \in {400, 200, 500}
        /\ L.res.status = 400 <=> (L.file = Null /\ L.multerError = "")
        /\ L.file # Null => Len(L.events) = Len(L.engine)

\* The last of the requests is answered, by a 200 of POST /thumbnail, and
\* every request has exactly one response.
C18_Witness ==
  /\ Returned /\ L.route = "thumbnail" /\ L.res.status = 200 /\ L.sent = 1
  /\ \A r \in Req : req[r].pc = "done" /\ req[r].sent = 1

====
